---- MODULE Spec2Model ----
(***************************************************************************)
(* httpmon: the aggregator (engine.Summarize) and the prober               *)
(* (engine.ExecutePing).                                                   *)
(*                                                                         *)
(* Durations are Go time.Duration values: integers counting nanoseconds.  *)
(* Strings that the code orders (URLs) are sequences of bytes; strings    *)
(* that the code only copies or tests for equality are TLA+ strings.      *)
(***************************************************************************)
EXTENDS Integers, Sequences, FiniteSets, TLC

VARIABLES
    pings,      \* Summarize: the argument, a sequence of Ping records
    stats,      \* Summarize: the returned sequence of SummaryStats records
    sumPc,      \* "input" before Summarize has run, "done" after it returned
    monitor,    \* ExecutePing: the argument, a Monitor record
    pc,         \* ExecutePing: the statement the call is at
    now,        \* the wall clock read by time.Now, time.Since and time.Until
    phase,      \* where the transport is in the request of the current hop
    hops,       \* redirects followed by client.Do so far
    dials,      \* dials started in the current hop
    openDials,  \* dials whose ConnectDone has not fired yet
    tr,         \* the variables the trace callbacks write (part_003:51-53)
    start,      \* start := time.Now()
    resp,       \* the status code of the response client.Do returned, 0: none
    lv,         \* ttfb, downloadStart, downloadTime, totalDuration
    result,     \* the returned Ping, NoPing before the return
    net,        \* ExecutePing: what the network does (dials under way, the body)
    fan,        \* runMonitor and its pingUrl goroutines, one record
    run,        \* runSummarize and its reader, one record
    rt          \* a Ping written as a record and parsed back, one record

sumVars == <<pings, stats, sumPc>>

pingVars == <<monitor, pc, now, phase, hops, dials, openDials, tr, start, resp, lv, result, net>>

\* what ExecutePing leaves alone
nonPingVars == <<pings, stats, sumPc, fan, run, rt>>

vars == <<pings, stats, sumPc, monitor, pc, now, phase, hops, dials, openDials, tr,
          start, resp, lv, result, net, fan, run, rt>>

----------------------------------------------------------------------------
(* Units of time.Duration and the bounds of the model.                     *)

Millisecond == 1000000
Second == 1000000000

\* int(^uint(0) >> 1): the start value of shortestCertValidity. Go's value is
\* 2^63-1; the model uses the largest integer TLC represents, which like
\* Go's lies above every duration and every count of seconds of the model.
MaxInt == 2147483647

MaxLen == 4          \* longest input sequence of Summarize
MaxRT == 4           \* largest TotalResponseTime of an input, in milliseconds
MaxCertS == 1        \* largest |CertRemainingValidity| of an input, in seconds
MaxClock == 3        \* the clock stops advancing at this instant
MaxDials == 2        \* parallel dials of one hop (dual-stack targets)
MaxHops == 1         \* redirects client.Do follows
MaxTargets == 3      \* lines of the target list of runMonitor

\* Endpoints, as byte strings: "a", "ab", "b".
URLs == {<<97>>, <<97, 98>>, <<98>>}
Names == {"m1", "m2"}
Statuses == {"Success", "Failed"}

----------------------------------------------------------------------------
(* Integer helpers of the Go runtime.                                      *)

\* Go's integer division and float-to-int conversion truncate toward zero.
TruncDiv(a, b) == IF a >= 0 THEN a \div b ELSE -((-a) \div b)

\* time.Duration.Milliseconds
Milliseconds(d) == TruncDiv(d, Millisecond)

\* int(d.Seconds()): Seconds is sec + nsec/1e9 as a float, int() truncates
Seconds(d) == TruncDiv(d, Second)

\* strings.Compare: lexicographic order of the bytes, a proper prefix first
RECURSIVE Compare(_, _)
Compare(a, b) ==
    IF a = <<>> /\ b = <<>> THEN 0
    ELSE IF a = <<>> THEN -1
    ELSE IF b = <<>> THEN 1
    ELSE IF Head(a) < Head(b) THEN -1
    ELSE IF Head(a) > Head(b) THEN 1
    ELSE Compare(Tail(a), Tail(b))

----------------------------------------------------------------------------
(* engine.Ping                                                             *)

Ping(name, url, status, timestamp, statusCode, message, dns, conn, tls, ttfb, download, total, cert) ==
    [Name |-> name, URL |-> url, Status |-> status, Timestamp |-> timestamp,
     StatusCode |-> statusCode, Message |-> message, DNSTime |-> dns,
     ConnectionTime |-> conn, TLSTime |-> tls, TTFB |-> ttfb,
     DownloadTime |-> download, TotalResponseTime |-> total,
     CertRemainingValidity |-> cert]

----------------------------------------------------------------------------
(* engine.Summarize                                                        *)

\* endpointsData[url]: the pings of one URL, in input order
EndpointsData(ps, url) == SelectSeq(ps, LAMBDA p : p.URL = url)

\* the keys of endpointsData (and of index)
Endpoints(ps) == {ps[i].URL : i \in 1..Len(ps)}

\* the per-endpoint variables before the loop over the endpoint's pings
LoopInit ==
    [totalResponseTime |-> 0, successCount |-> 0, longestResponseTime |-> 0,
     shortestCertValidity |-> MaxInt, failedCount |-> 0, responseTimes |-> <<>>,
     worstMonitorName |-> "", worstPerformance |-> 0]

\* mutant of CountStatus: the status is compared with the wrong spelling
CountStatusLowercase(acc, p) ==
    IF p.Status = "success"
    THEN [acc EXCEPT !.successCount = @ + 1]
    ELSE [acc EXCEPT !.failedCount = @ + 1]

\* the success/failed counters after one ping
CountStatus(acc, p) ==
    IF p.Status = "Success"
    THEN [acc EXCEPT !.successCount = @ + 1]
    ELSE [acc EXCEPT !.failedCount = @ + 1]

\* one iteration of the loop over the endpoint's pings. The three guards
\* compare the ping's duration (int(p.X), nanoseconds) with a variable that
\* holds milliseconds or seconds.
LoopBody(acc, p) ==
    LET pTotalResponseTime == Milliseconds(p.TotalResponseTime)
        a1 == [CountStatus(acc, p) EXCEPT
                 !.totalResponseTime = @ + pTotalResponseTime,
                 !.responseTimes = Append(@, pTotalResponseTime)]
        a2 == IF p.TotalResponseTime > a1.longestResponseTime
              THEN [a1 EXCEPT !.longestResponseTime = pTotalResponseTime]
              ELSE a1
        a3 == IF p.CertRemainingValidity < a2.shortestCertValidity
              THEN [a2 EXCEPT !.shortestCertValidity = Seconds(p.CertRemainingValidity)]
              ELSE a2
    IN  IF p.TotalResponseTime > a3.worstPerformance
        THEN [a3 EXCEPT !.worstPerformance = pTotalResponseTime,
                        !.worstMonitorName = p.Name]
        ELSE a3

RECURSIVE Loop(_, _, _)
Loop(acc, data, i) ==
    IF i > Len(data) THEN acc ELSE Loop(LoopBody(acc, data[i]), data, i + 1)

\* sort.Ints: insertion into an ascending sequence
RECURSIVE InsertInt(_, _)
InsertInt(s, x) ==
    IF s = <<>> THEN <<x>>
    ELSE IF x < Head(s) THEN <<x>> \o s
    ELSE <<Head(s)>> \o InsertInt(Tail(s), x)

RECURSIVE SortInts(_)
SortInts(s) ==
    IF s = <<>> THEN <<>> ELSE InsertInt(SortInts(SubSeq(s, 1, Len(s) - 1)), s[Len(s)])

\* mutant of MedianIndex: the lower middle element for even n
MedianIndexLower(n) == (n - 1) \div 2

\* len(responseTimes)/2, as a 0-based index
MedianIndex(n) == n \div 2

\* int(float64(len(responseTimes))*0.99) - 1, not below 0, as a 0-based index
PercentileIndex(n) ==
    LET percentileIndex == ((n * 99) \div 100) - 1
    IN  IF percentileIndex < 0 THEN 0 ELSE percentileIndex

\* (float64(successCount) / float64(len(data))) * 100, kept as the exact
\* quotient num/den: TLC has no floating point
AvailabilityOf(successCount, n) == [num |-> successCount * 100, den |-> n]

\* mutant of AvgOf: the quotient is rounded to the nearest integer
AvgOfRounded(totalResponseTime, n) == (2 * totalResponseTime + n) \div (2 * n)

\* time.Duration(float64(totalResponseTime) / float64(len(data))): the
\* conversion drops the fraction
AvgOf(totalResponseTime, n) == TruncDiv(totalResponseTime, n)

\* the SummaryStats of one endpoint
StatsOf(endpoint, data) ==
    LET acc == Loop(LoopInit, data, 1)
        responseTimes == SortInts(acc.responseTimes)
        n == Len(responseTimes)
        medianResponseTime == IF n > 0 THEN responseTimes[MedianIndex(n) + 1] ELSE 0
        percentile99ResponseTime ==
            IF n > 0 THEN responseTimes[PercentileIndex(n) + 1] ELSE 0
    IN  [Endpoint |-> endpoint,
         Availability |-> AvailabilityOf(acc.successCount, Len(data)),
         AvgResponseTime |-> AvgOf(acc.totalResponseTime, Len(data)) * Millisecond,
         MedianResponseTime |-> medianResponseTime * Millisecond,
         Percentile99ResponseTime |-> percentile99ResponseTime * Millisecond,
         LongestResponseTime |-> acc.longestResponseTime * Millisecond,
         ShortestCertValidityTime |-> acc.shortestCertValidity * Millisecond,
         WorstMonitor |-> acc.worstMonitorName,
         NumberOfMeasurements |-> Len(data),
         NumberOfFailedMeasurements |-> acc.failedCount,
         MonitoringDuration |-> "unknown"]

\* slices.SortFunc(stats, strings.Compare on Endpoint): insertion into a
\* sequence ascending by Endpoint (the endpoints of stats are distinct, so
\* every sorting algorithm yields the same sequence)
RECURSIVE InsertStat(_, _)
InsertStat(s, x) ==
    IF s = <<>> THEN <<x>>
    ELSE IF Compare(x.Endpoint, Head(s).Endpoint) < 0 THEN <<x>> \o s
    ELSE <<Head(s)>> \o InsertStat(Tail(s), x)

\* mutant of SortFunc: the sequence is left in the order of the map iteration
SortFuncOmitted(s) == s

RECURSIVE SortFunc(_)
SortFunc(s) ==
    IF s = <<>> THEN <<>> ELSE InsertStat(SortFunc(SubSeq(s, 1, Len(s) - 1)), s[Len(s)])

\* the orders in which a range over a map with these keys may yield them
IterationOrders(keys) ==
    {o \in [1..Cardinality(keys) -> keys] : \A i, j \in DOMAIN o : i # j => o[i] # o[j]}

\* Summarize(pings), with the map index iterated in the given order when the
\* stats are collected (the order of the earlier range over endpointsData
\* decides nothing: each endpoint's stats are stored under its key)
Summarize(ps, order) ==
    SortFunc([i \in 1..Len(order) |-> StatsOf(order[i], EndpointsData(ps, order[i]))])

----------------------------------------------------------------------------
(* The inputs of Summarize. Its only caller, runSummarize, passes pings    *)
(* read back by parsePing: durations are whole milliseconds, the           *)
(* certificate validity whole seconds (negative for an expired             *)
(* certificate). Each family of inputs varies some fields of the pings and *)
(* leaves the others at one value.                                         *)

ResponseTimes == {ms * Millisecond : ms \in 0..MaxRT}
CertValidities == {s * Second : s \in (-MaxCertS)..MaxCertS}

SeqsUpTo(n, S) == UNION {[1..k -> S] : k \in 0..n}

\* endpoints and statuses vary
GroupPings ==
    {Ping("m1", u, s, 0, 0, "", 0, 0, 0, 0, 0, Millisecond, 0) :
        u \in URLs, s \in Statuses}

\* agent names and response times vary, one endpoint
TimePings ==
    {Ping(m, <<97>>, "Success", 0, 0, "", 0, 0, 0, 0, 0, t, 0) :
        m \in Names, t \in ResponseTimes}

\* endpoints, statuses and response times vary
MixedPings ==
    {Ping("m1", u, s, 0, 0, "", 0, 0, 0, 0, 0, t, 0) :
        u \in {<<97>>, <<98>>}, s \in Statuses, t \in ResponseTimes}

\* endpoints and certificate validities vary
CertPings ==
    {Ping("m1", u, "Success", 0, 0, "", 0, 0, 0, 0, 0, Millisecond, c) :
        u \in {<<97>>, <<98>>}, c \in CertValidities}

SummarizeInputs ==
    SeqsUpTo(MaxLen, GroupPings) \cup SeqsUpTo(MaxLen, TimePings)
        \cup SeqsUpTo(MaxLen - 1, MixedPings) \cup SeqsUpTo(MaxLen, CertPings)

----------------------------------------------------------------------------
(* The aggregator as a state machine.                                      *)

SumInit ==
    /\ pings \in SummarizeInputs
    /\ stats = <<>>
    /\ sumPc = "input"

\* allStats := engine.Summarize(pings)
DoSummarize ==
    /\ sumPc = "input"
    /\ \E order \in IterationOrders(Endpoints(pings)) :
          stats' = Summarize(pings, order)
    /\ sumPc' = "done"
    /\ UNCHANGED <<pings, pingVars, fan, run, rt>>

----------------------------------------------------------------------------
(* engine.ExecutePing                                                      *)

NoPing == [Name |-> "", Status |-> "none"]

\* the status codes a server answers with
StatusCodes == {200, 204, 404}

\* Monitor.AcceptedStatusCodes; the last one is what pingUrl configures
AcceptedChoices == {<<>>, <<200>>, <<404>>, <<200, 201, 202, 204>>}

\* Monitor.HTTPMethod: pingUrl's, and one http.NewRequest rejects
Methods == {"GET", "GE T"}

Monitors ==
    [Name : {"m1"}, URL : {<<97>>}, HTTPMethod : Methods,
     AcceptedStatusCodes : AcceptedChoices]

\* the lifetime left of the certificates servers present
CertLifetimes == {3}

\* http.StatusText
StatusText(code) ==
    CASE code = 200 -> "OK"
      [] code = 201 -> "Created"
      [] code = 202 -> "Accepted"
      [] code = 204 -> "No Content"
      [] code = 404 -> "Not Found"
      [] OTHER -> ""

\* mutant of isStatusCodeAccepted: only the first accepted code is looked at
isStatusCodeAcceptedFirst(statusCode, acceptedStatusCodes) ==
    Len(acceptedStatusCodes) > 0 /\ acceptedStatusCodes[1] = statusCode

isStatusCodeAccepted(statusCode, acceptedStatusCodes) ==
    \E i \in 1..Len(acceptedStatusCodes) : acceptedStatusCodes[i] = statusCode

\* mutant of FailedPing: the timings measured so far are kept
FailedPingWithTimings(message) ==
    Ping(monitor.Name, monitor.URL, "Failed", now, 0, message, tr.dnsDuration,
         tr.connDuration, tr.tlsDuration, 0, 0, 0, tr.certRemainingValidity)

\* the Ping of the two error returns: the fields not named keep Go's zero value
FailedPing(message) ==
    Ping(monitor.Name, monitor.URL, "Failed", now, 0, message, 0, 0, 0, 0, 0, 0, 0)

\* the trace variables and locals, at Go's zero values (the zero time.Time is 0,
\* the clock starts at 1)
TraceZero ==
    [dnsStart |-> 0, connStart |-> 0, tlsStart |-> 0, firstByteTime |-> 0,
     dnsDuration |-> 0, connDuration |-> 0, tlsDuration |-> 0,
     certRemainingValidity |-> 0]

LocalsZero == [ttfb |-> 0, downloadStart |-> 0, downloadTime |-> 0, totalDuration |-> 0]

\* the limit given to http.MaxBytesReader and the length of the buffer read into
BodyCap == 10485760

\* the sizes of the pieces in which a response body arrives, each piece what
\* one Read of resp.Body can return: one piece, two pieces, and a body longer
\* than the limit
BodyChoices == {<<100>>, <<100, 200>>, <<BodyCap, 100>>}

\* what happens outside the program's variables: the start instants of the
\* dials under way, the start-to-end delta of the dial that ended last, the
\* response body and the number of its bytes read
NetZero == [openStarts |-> <<>>, connDelta |-> 0, body |-> <<>>, bytesRead |-> 0]

\* net.Dialer.DialContext races two serial dialers, one over the primary and
\* one over the fallback addresses: two dials are under way at most (a dial
\* cancelled when the other one won counts until its ConnectDone has fired)
DialRacers == 2

\* s without its i-th element
RemoveAt(s, i) == SubSeq(s, 1, i - 1) \o SubSeq(s, i + 1, Len(s))

\* MaxBytesReader(nil, body, n).Read(p) with len(p) = n, first call: one Read
\* of the body into p, which returns at most the piece that has arrived
MaxBytesRead(body, n) ==
    IF body = <<>> THEN 0 ELSE IF body[1] < n THEN body[1] ELSE n

PingInit ==
    /\ monitor \in Monitors
    /\ pc = "new"
    /\ now = 1
    /\ phase = "idle"
    /\ hops = 0
    /\ dials = 0
    /\ openDials = 0
    /\ tr = TraceZero
    /\ start = 0
    /\ resp = 0
    /\ lv = LocalsZero
    /\ result = NoPing
    /\ net = NetZero

\* time passes between any two steps
Tick ==
    /\ pc # "done"
    /\ now < MaxClock
    /\ now' = now + 1
    /\ UNCHANGED <<nonPingVars, net, monitor, pc, phase, hops, dials, openDials, tr, start, resp, lv, result>>

\* req, err := http.NewRequest(...): the error return, or on to start := time.Now()
NewRequest ==
    /\ pc = "new"
    /\ IF monitor.HTTPMethod = "GET"
       THEN /\ start' = now
            /\ pc' = "do"
            /\ UNCHANGED result
       ELSE /\ result' = FailedPing("Error creating request: invalid method")
            /\ pc' = "done"
            /\ UNCHANGED start
    /\ UNCHANGED <<nonPingVars, net, monitor, now, phase, hops, dials, openDials, tr, resp, lv>>

\* the callbacks of the ClientTrace, fired by the transport inside client.Do
DNSStart ==
    /\ pc = "do" /\ phase = "idle"
    /\ tr' = [tr EXCEPT !.dnsStart = now]
    /\ phase' = "dns"
    /\ UNCHANGED <<nonPingVars, net, monitor, pc, now, hops, dials, openDials, start, resp, lv, result>>

DNSDone ==
    /\ pc = "do" /\ phase = "dns"
    /\ tr' = [tr EXCEPT !.dnsDuration = now - tr.dnsStart]
    /\ phase' = "resolved"
    /\ UNCHANGED <<nonPingVars, net, monitor, pc, now, hops, dials, openDials, start, resp, lv, result>>

\* a literal IP address is dialled without a DNS lookup
ConnectStart ==
    /\ pc = "do" /\ phase \in {"idle", "resolved", "dialing"}
    /\ dials < MaxDials
    /\ openDials < DialRacers
    /\ tr' = [tr EXCEPT !.connStart = now]
    /\ phase' = "dialing"
    /\ dials' = dials + 1
    /\ openDials' = openDials + 1
    /\ net' = [net EXCEPT !.openStarts = Append(@, now)]
    /\ UNCHANGED <<nonPingVars, monitor, pc, now, hops, start, resp, lv, result>>

\* the dial that ends first and succeeds gives the connection; the others end
\* whenever they end
ConnectDone ==
    /\ pc = "do" /\ openDials > 0
    /\ tr' = [tr EXCEPT !.connDuration = now - tr.connStart]
    /\ openDials' = openDials - 1
    /\ \E ok \in BOOLEAN :
          phase' = IF phase = "dialing" /\ ok THEN "connected" ELSE phase
    /\ \E i \in DOMAIN net.openStarts :
          net' = [net EXCEPT !.openStarts = RemoveAt(@, i),
                             !.connDelta = now - net.openStarts[i]]
    /\ UNCHANGED <<nonPingVars, monitor, pc, now, hops, dials, start, resp, lv, result>>

TLSHandshakeStart ==
    /\ pc = "do" /\ phase = "connected"
    /\ tr' = [tr EXCEPT !.tlsStart = now]
    /\ phase' = "tls"
    /\ UNCHANGED <<nonPingVars, net, monitor, pc, now, hops, dials, openDials, start, resp, lv, result>>

\* err == nil with a peer certificate, or a failed handshake
TLSHandshakeDone ==
    /\ pc = "do" /\ phase = "tls"
    /\ \/ \E life \in CertLifetimes :
             /\ tr' = [tr EXCEPT !.tlsDuration = now - tr.tlsStart,
                                 !.certRemainingValidity = life]
             /\ phase' = "secured"
       \/ /\ tr' = [tr EXCEPT !.tlsDuration = now - tr.tlsStart]
          /\ phase' = "broken"
    /\ UNCHANGED <<nonPingVars, net, monitor, pc, now, hops, dials, openDials, start, resp, lv, result>>

GotFirstResponseByte ==
    /\ pc = "do" /\ phase \in {"connected", "secured"}
    /\ tr' = [tr EXCEPT !.firstByteTime = now]
    /\ phase' = "firstbyte"
    /\ UNCHANGED <<nonPingVars, net, monitor, pc, now, hops, dials, openDials, start, resp, lv, result>>

\* the response is a redirect: client.Do requests the new location
FollowRedirect ==
    /\ pc = "do" /\ phase = "firstbyte"
    /\ hops < MaxHops
    /\ hops' = hops + 1
    /\ dials' = 0
    /\ phase' = "idle"
    /\ UNCHANGED <<nonPingVars, net, monitor, pc, now, openDials, tr, start, resp, lv, result>>

\* resp, err := client.Do(req) with err != nil, at any point of the request
DoFails ==
    /\ pc = "do"
    /\ result' = FailedPing("Error executing request: transport error")
    /\ pc' = "done"
    /\ UNCHANGED <<nonPingVars, net, monitor, now, phase, hops, dials, openDials, tr, start, resp, lv>>

\* client.Do returns a response; ttfb and downloadStart are taken
DoReturns ==
    /\ pc = "do" /\ phase = "firstbyte"
    /\ \E code \in StatusCodes : resp' = code
    /\ \E body \in BodyChoices : net' = [net EXCEPT !.body = body]
    /\ lv' = [lv EXCEPT !.ttfb = tr.firstByteTime - start, !.downloadStart = now]
    /\ pc' = "read"
    /\ UNCHANGED <<nonPingVars, monitor, now, phase, hops, dials, openDials, tr, start, result>>

\* the one Read of the body returns; downloadTime = time.Since(downloadStart)
ReadReturns ==
    /\ pc = "read"
    /\ net' = [net EXCEPT !.bytesRead = MaxBytesRead(net.body, BodyCap)]
    /\ lv' = [lv EXCEPT !.downloadTime = now - lv.downloadStart]
    /\ pc' = "total"
    /\ UNCHANGED <<nonPingVars, monitor, now, phase, hops, dials, openDials, tr, start, resp, result>>

\* totalDuration := time.Since(start)
TakeTotal ==
    /\ pc = "total"
    /\ lv' = [lv EXCEPT !.totalDuration = now - start]
    /\ pc' = "return"
    /\ UNCHANGED <<nonPingVars, net, monitor, now, phase, hops, dials, openDials, tr, start, resp, result>>

\* the status is decided and the Ping returned, Timestamp: time.Now()
ReturnPing ==
    /\ pc = "return"
    /\ result' =
          Ping(monitor.Name, monitor.URL,
               IF isStatusCodeAccepted(resp, monitor.AcceptedStatusCodes)
               THEN "Success" ELSE "Failed",
               now, resp, StatusText(resp), tr.dnsDuration, tr.connDuration,
               tr.tlsDuration, lv.ttfb, lv.downloadTime, lv.totalDuration,
               tr.certRemainingValidity)
    /\ pc' = "done"
    /\ UNCHANGED <<nonPingVars, net, monitor, now, phase, hops, dials, openDials, tr, start, resp, lv>>

ExecutePing ==
    \/ Tick
    \/ NewRequest
    \/ DNSStart
    \/ DNSDone
    \/ ConnectStart
    \/ ConnectDone
    \/ TLSHandshakeStart
    \/ TLSHandshakeDone
    \/ GotFirstResponseByte
    \/ FollowRedirect
    \/ DoFails
    \/ DoReturns
    \/ ReadReturns
    \/ TakeTotal
    \/ ReturnPing

----------------------------------------------------------------------------
(* runMonitor and pingUrl: the fan-out driver and its goroutines.          *)

\* opts.urls: an empty line, two targets, and one url.Parse or the scheme
\* test rejects
Targets == {"", "http://a", "https://b", "ftp://c"}

ValidTarget(u) == u \in {"http://a", "https://b"}

\* what the writer's buffer holds: rows, each the header, the row of one
\* target, or bytes of several rows mixed
HeaderRow == [kind |-> "header", target |-> 0]
ResultRow(k) == [kind |-> "row", target |-> k]
TornRow == [kind |-> "torn", target |-> 0]

FanStart(urls, batch) ==
    [urls |-> urls, batch |-> batch, drv |-> "start", i |-> 1, wg |-> 0,
     launched |-> <<>>, g |-> [k \in 1..Len(urls) |-> "none"],
     pos |-> [k \in 1..Len(urls) |-> 0], out |-> <<>>, writes |-> 0]

FanInit == fan \in {FanStart(urls, batch) : urls \in SeqsUpTo(MaxTargets, Targets), batch \in BOOLEAN}

FanIdle == fan = [FanStart(<<>>, TRUE) EXCEPT !.drv = "off"]

fanRest == <<sumVars, pingVars, run, rt>>

\* the validation loop, os.Exit(1) on an invalid url, then the header row
\* unless in batch mode
FanValidate ==
    /\ fan.drv = "start"
    /\ IF \E k \in DOMAIN fan.urls : fan.urls[k] # "" /\ ~ValidTarget(fan.urls[k])
       THEN fan' = [fan EXCEPT !.drv = "exit"]
       ELSE fan' = [fan EXCEPT !.drv = "launch",
                               !.out = IF fan.batch THEN <<>> ELSE <<HeaderRow>>]
    /\ UNCHANGED fanRest

\* mutant of WaitGroupAdd: wait.Add(1) is left out
WaitGroupAddOmitted(wg) == wg

\* wait.Add(1)
WaitGroupAdd(wg) == wg + 1

\* mutant of SkipTarget: empty lines are probed like targets
SkipTargetNever(u) == FALSE

\* if u == "" { continue }
SkipTarget(u) == u = ""

\* one iteration of the launch loop: wait.Add(1); go pingUrl(...)
FanLaunch ==
    /\ fan.drv = "launch"
    /\ fan.i <= Len(fan.urls)
    /\ IF SkipTarget(fan.urls[fan.i])
       THEN fan' = [fan EXCEPT !.i = @ + 1]
       ELSE fan' = [fan EXCEPT !.i = @ + 1,
                               !.wg = WaitGroupAdd(@),
                               !.launched = Append(@, fan.i),
                               !.g[fan.i] = "ping"]
    /\ UNCHANGED fanRest

\* the loop is over: the driver blocks in wait.Wait()
FanLoopEnd ==
    /\ fan.drv = "launch"
    /\ fan.i > Len(fan.urls)
    /\ fan' = [fan EXCEPT !.drv = "wait"]
    /\ UNCHANGED fanRest

\* wait.Wait() returns when the counter is zero; writer.Flush()
FanWaitFlush ==
    /\ fan.drv = "wait"
    /\ fan.wg = 0
    /\ fan' = [fan EXCEPT !.drv = "flushed"]
    /\ UNCHANGED fanRest

\* pingUrl: engine.ExecutePing(monitor) returns
ProbeReturns ==
    \E k \in DOMAIN fan.g :
        /\ fan.g[k] = "ping"
        /\ fan' = [fan EXCEPT !.g[k] = "call"]
        /\ UNCHANGED fanRest

\* pingUrl enters w.Write: CsvWriter.Write and TabWriter.Write take no lock
\* and hand the row to a csv.Writer or a tabwriter.Writer, which append it
\* at the buffer position they read
WriteBegin ==
    \E k \in DOMAIN fan.g :
        /\ fan.g[k] = "call"
        /\ fan' = [fan EXCEPT !.g[k] = "writing", !.pos[k] = Len(fan.out)]
        /\ UNCHANGED fanRest

\* the row is stored and w.Write returns. When another Write moved the buffer
\* in between, the unsynchronised stores overwrite its rows or mix with them.
WriteEnd ==
    \E k \in DOMAIN fan.g :
        /\ fan.g[k] = "writing"
        /\ LET at == IF fan.pos[k] < Len(fan.out) THEN fan.pos[k] ELSE Len(fan.out)
           IN  \/ fan' = [fan EXCEPT !.g[k] = "written", !.writes = @ + 1,
                             !.out = Append(SubSeq(@, 1, at), ResultRow(k))]
               \/ /\ fan.pos[k] # Len(fan.out)
                  /\ fan' = [fan EXCEPT !.g[k] = "written", !.writes = @ + 1,
                                !.out = Append(SubSeq(@, 1, at), TornRow)]
        /\ UNCHANGED fanRest

\* wg.Done()
WaitGroupDone ==
    \E k \in DOMAIN fan.g :
        /\ fan.g[k] = "written"
        /\ fan' = [fan EXCEPT !.g[k] = "done", !.wg = @ - 1]
        /\ UNCHANGED fanRest

NextFan ==
    \/ FanValidate
    \/ FanLaunch
    \/ FanLoopEnd
    \/ FanWaitFlush
    \/ ProbeReturns
    \/ WriteBegin
    \/ WriteEnd
    \/ WaitGroupDone

----------------------------------------------------------------------------
(* cli.Formatter, cli.In and parsePing: a Ping as a record of 13 fields.   *)
(* The formatted numbers are strings of bytes: decimal digits, '-' first   *)
(* for a negative number.                                                  *)

\* the decimal digits of n >= 0
RECURSIVE DigitsOf(_)
DigitsOf(n) ==
    IF n < 10 THEN <<48 + n>> ELSE Append(DigitsOf(n \div 10), 48 + (n % 10))

\* strconv.Itoa, strconv.FormatInt(i, 10)
FormatInt(i) == IF i < 0 THEN <<45>> \o DigitsOf(-i) ELSE DigitsOf(i)

RECURSIVE ValueOf(_)
ValueOf(digits) ==
    IF digits = <<>> THEN 0
    ELSE 10 * ValueOf(SubSeq(digits, 1, Len(digits) - 1)) + (digits[Len(digits)] - 48)

\* strconv.Atoi: an optional sign and at least one digit, nothing else
ParseInt(in) ==
    LET signed == in # <<>> /\ in[1] \in {43, 45}
        digits == IF signed THEN Tail(in) ELSE in
    IN  IF digits = <<>> \/ \E k \in DOMAIN digits : digits[k] \notin 48..57
        THEN [err |-> TRUE, v |-> 0]
        ELSE [err |-> FALSE,
              v |-> IF signed /\ in[1] = 45 THEN -ValueOf(digits) ELSE ValueOf(digits)]

\* t.Format(time.RFC3339): the text names the calendar second of the instant
\* and nothing finer; it is modelled by the decimal count of whole seconds
FormatTime(t) == FormatInt(t \div Second)

\* time.Parse(time.RFC3339, in): the instant of the second the text names
ParseTime(in) ==
    IF in = <<>> \/ \E k \in DOMAIN in : in[k] \notin 48..57
    THEN [err |-> TRUE, v |-> 0]
    ELSE [err |-> FALSE, v |-> ValueOf(in) * Second]

\* mutant of FormatDurationms: the milliseconds are rounded, not truncated
FormatDurationmsRounded(d) == FormatInt(Milliseconds(d + 500000))

\* strconv.FormatInt(d.Milliseconds(), 10)
FormatDurationms(d) == FormatInt(Milliseconds(d))

\* strconv.FormatInt(d.Milliseconds()/1000, 10)
FormatDurations(d) == FormatInt(TruncDiv(Milliseconds(d), 1000))

\* In.parseDuration
parseDuration(in, multiplier) ==
    LET r == ParseInt(in)
    IN  IF r.err THEN r ELSE [err |-> FALSE, v |-> r.v * multiplier]

ParseDurationms(in) == parseDuration(in, Millisecond)

ParseDurations(in) == parseDuration(in, Second)

\* the arguments of w.Write in pingUrl
FormatRecord(p) ==
    <<p.Name, p.URL, p.Status, FormatTime(p.Timestamp), FormatInt(p.StatusCode),
      p.Message, FormatDurationms(p.DNSTime), FormatDurationms(p.ConnectionTime),
      FormatDurationms(p.TLSTime), FormatDurationms(p.TTFB),
      FormatDurationms(p.DownloadTime), FormatDurationms(p.TotalResponseTime),
      FormatDurations(p.CertRemainingValidity)>>

\* parsePing: record[k] of the code is record[k + 1] here. The first field
\* that does not parse ends it with an error.
parsePing(record) ==
    LET timestamp == ParseTime(record[4])
        statusCode == ParseInt(record[5])
        dnsTime == ParseDurationms(record[7])
        connectionTime == ParseDurationms(record[8])
        tlsTime == ParseDurationms(record[9])
        ttfb == ParseDurationms(record[10])
        downloadTime == ParseDurationms(record[11])
        totalResponseTime == ParseDurationms(record[12])
        certRemainingValidity == ParseDurations(record[13])
    IN  IF \/ timestamp.err \/ statusCode.err \/ dnsTime.err \/ connectionTime.err
           \/ tlsTime.err \/ ttfb.err \/ downloadTime.err \/ totalResponseTime.err
           \/ certRemainingValidity.err
        THEN [err |-> TRUE, ping |-> NoPing]
        ELSE [err |-> FALSE,
              ping |-> Ping(record[1], record[2], record[3], timestamp.v, statusCode.v,
                            record[6], dnsTime.v, connectionTime.v, tlsTime.v, ttfb.v,
                            downloadTime.v, totalResponseTime.v, certRemainingValidity.v)]

\* the probe results written and read back: every timing takes a value with
\* and without a fraction of a millisecond, the certificate validity values
\* with and without a fraction of a second, of either sign
TimingSamples == {0, 1500000, 2000000}
ValiditySamples == {-1500000000, 0, 999000000, 1500000000}
TimestampSamples == {Second, Second + 500000000}

RoundTripPings ==
    {Ping("m1", <<97>>, st.s, ts, st.c, st.m, dns, conn, tls, ttfb, dl, tot, cert) :
        st \in {[s |-> "Success", c |-> 200, m |-> "OK"],
                [s |-> "Failed", c |-> 0, m |-> "Error executing request: transport error"]},
        ts \in TimestampSamples, dns \in {0, 1500000}, conn \in {0, 2000000},
        tls \in {0, 1500000}, ttfb \in TimingSamples, dl \in {0, 1500000},
        tot \in TimingSamples, cert \in ValiditySamples}

RtInit ==
    rt \in {[pc |-> "ping", ping |-> p, record |-> <<>>, parsed |-> [err |-> FALSE, ping |-> NoPing],
             again |-> <<>>] : p \in RoundTripPings}

RtIdle ==
    rt = [pc |-> "off", ping |-> NoPing, record |-> <<>>,
          parsed |-> [err |-> FALSE, ping |-> NoPing], again |-> <<>>]

rtRest == <<sumVars, pingVars, fan, run>>

\* pingUrl hands the formatted fields to the writer
RtWrite ==
    /\ rt.pc = "ping"
    /\ rt' = [rt EXCEPT !.pc = "written", !.record = FormatRecord(rt.ping)]
    /\ UNCHANGED rtRest

\* runSummarize reads the record and calls parsePing
RtParse ==
    /\ rt.pc = "written"
    /\ rt' = [rt EXCEPT !.pc = "parsed", !.parsed = parsePing(rt.record)]
    /\ UNCHANGED rtRest

\* the parsed Ping is formatted again
RtWriteAgain ==
    /\ rt.pc = "parsed"
    /\ ~rt.parsed.err
    /\ rt' = [rt EXCEPT !.pc = "again", !.again = FormatRecord(rt.parsed.ping)]
    /\ UNCHANGED rtRest

NextRoundTrip ==
    \/ RtWrite
    \/ RtParse
    \/ RtWriteAgain

----------------------------------------------------------------------------
(* runSummarize: the records of the input are read one by one, parsed and  *)
(* collected, then summarized.                                             *)

MaxLines == 3        \* longest input of runSummarize, in records

\* two results as pingUrl writes them
RecordedPings ==
    <<Ping("m1", <<97>>, "Success", Second, 200, "OK", 0, 0, 0, 0, 0, 2 * Millisecond, 0),
      Ping("m2", <<98>>, "Failed", Second, 404, "Not Found", 0, 0, 0, 0, 0, 3 * Millisecond, 0)>>

\* the header row runMonitor writes when it is not in batch mode
HeaderRecord ==
    <<"MONITOR", <<85, 82, 76>>, "STATUS", <<84, 73, 77, 69, 83, 84, 65, 77, 80>>,
      <<67, 79, 68, 69>>, "MESSAGE", <<68, 78, 83>>, <<67, 79, 78, 78, 69, 67, 84, 73, 79, 78>>,
      <<84, 76, 83>>, <<84, 84, 70, 66>>, <<68, 79, 87, 78, 76, 79, 65, 68>>,
      <<82, 69, 83, 80, 79, 78, 83, 69>>,
      <<67, 69, 82, 84, 32, 86, 65, 76, 73, 68, 73, 84, 89>>>>

\* the records an input is made of: the two results, the header row, and a
\* result that lost its last field
InputRecords ==
    {FormatRecord(RecordedPings[1]), FormatRecord(RecordedPings[2]), HeaderRecord,
     SubSeq(FormatRecord(RecordedPings[1]), 1, 12)}

\* the starts of runSummarize: the flags, the records of the input, and how
\* the input ends: with io.EOF, or with an error that every further read of
\* it returns again (the input is a directory, say)
RunStarts ==
    {[pc |-> "start", csv |-> c, ignore |-> i, input |-> in, lines |-> in, tail |-> t,
      fieldsPerRecord |-> 0, line |-> 0, pings |-> <<>>, passed |-> <<>>, rows |-> 0,
      err |-> ""] :
        c \in BOOLEAN, i \in BOOLEAN, in \in SeqsUpTo(MaxLines, InputRecords),
        t \in {"EOF", "read error"}}

RunInit == run \in RunStarts

RunIdle ==
    run = [pc |-> "off", csv |-> TRUE, ignore |-> FALSE, input |-> <<>>, lines |-> <<>>,
           tail |-> "EOF", fieldsPerRecord |-> 0, line |-> 0, pings |-> <<>>,
           passed |-> <<>>, rows |-> 0, err |-> ""]

runRest == <<sumVars, pingVars, fan, rt>>

\* csv.Reader.Read with FieldsPerRecord 0: the first record sets the number of
\* fields, every later record with another number of fields is returned with
\* ErrFieldCount; at the end of the records the end of the input shows
CsvRead(lines, tail, fieldsPerRecord) ==
    IF lines = <<>>
    THEN [record |-> <<>>, err |-> tail, lines |-> lines, fieldsPerRecord |-> fieldsPerRecord]
    ELSE [record |-> Head(lines),
          err |-> IF fieldsPerRecord > 0 /\ Len(Head(lines)) # fieldsPerRecord
                  THEN "wrong number of fields" ELSE "",
          lines |-> Tail(lines),
          fieldsPerRecord |-> IF fieldsPerRecord = 0 THEN Len(Head(lines))
                              ELSE fieldsPerRecord]

\* the reader is chosen: only CSV is supported
NewReader ==
    /\ run.pc = "start"
    /\ run' = IF run.csv THEN [run EXCEPT !.pc = "read"]
              ELSE [run EXCEPT !.pc = "error", !.err = "unsupported format"]
    /\ UNCHANGED runRest

\* one turn of the loop. line counts the turns and is only printed; it is an
\* int, which wraps around, and the model wraps it after MaxLines + 2.
ReadRecord ==
    /\ run.pc = "read"
    /\ LET r == CsvRead(run.lines, run.tail, run.fieldsPerRecord)
           p == parsePing(r.record)
           next == [run EXCEPT !.line = IF @ < MaxLines + 2 THEN @ + 1 ELSE 0,
                               !.lines = r.lines, !.fieldsPerRecord = r.fieldsPerRecord]
           fail(e) == IF run.ignore THEN next
                      ELSE [next EXCEPT !.pc = "error", !.err = e]
       IN  run' = IF r.err = "EOF" THEN [next EXCEPT !.pc = "eof"]
                  ELSE IF r.err # "" THEN fail(r.err)
                  ELSE IF Len(r.record) # 13 THEN fail("invalid record")
                  ELSE IF p.err THEN fail("parse error")
                  ELSE [next EXCEPT !.pings = Append(@, p.ping)]
    /\ UNCHANGED runRest

\* allStats := engine.Summarize(pings); the header row and one row for each
\* entry are written
SummarizeRows ==
    /\ run.pc = "eof"
    /\ \E order \in IterationOrders(Endpoints(run.pings)) :
          run' = [run EXCEPT !.pc = "summarized", !.passed = run.pings,
                             !.rows = 1 + Len(Summarize(run.pings, order))]
    /\ UNCHANGED runRest

NextRun ==
    \/ NewReader
    \/ ReadRecord
    \/ SummarizeRows

----------------------------------------------------------------------------
(* The specifications: the aggregator on every input, and one probe.       *)

\* no probe is running
PingIdle ==
    /\ monitor = [Name |-> "m1", URL |-> <<97>>, HTTPMethod |-> "GET",
                  AcceptedStatusCodes |-> <<>>]
    /\ pc = "done"
    /\ now = 1
    /\ phase = "idle"
    /\ hops = 0
    /\ dials = 0
    /\ openDials = 0
    /\ tr = TraceZero
    /\ start = 0
    /\ resp = 0
    /\ lv = LocalsZero
    /\ result = NoPing
    /\ net = NetZero

\* nothing to summarize
SumIdle ==
    /\ pings = <<>>
    /\ stats = <<>>
    /\ sumPc = "idle"

Init == SumInit /\ PingIdle /\ FanIdle /\ RunIdle /\ RtIdle

Next == DoSummarize

Spec == Init /\ [][Next]_vars

InitPing == PingInit /\ SumIdle /\ FanIdle /\ RunIdle /\ RtIdle

NextPing == ExecutePing

SpecPing == InitPing /\ [][NextPing]_vars

InitFan == FanInit /\ SumIdle /\ PingIdle /\ RunIdle /\ RtIdle

SpecFan == InitFan /\ [][NextFan]_vars

InitRoundTrip == RtInit /\ SumIdle /\ PingIdle /\ FanIdle /\ RunIdle

SpecRoundTrip == InitRoundTrip /\ [][NextRoundTrip]_vars

InitRun == RunInit /\ SumIdle /\ PingIdle /\ FanIdle /\ RtIdle

\* runSummarize runs on: the reader is chosen, and a turn of the loop that can
\* be taken is taken
SpecRun == InitRun /\ [][NextRun]_vars /\ WF_vars(NewReader) /\ WF_vars(ReadRecord)

----------------------------------------------------------------------------
(* What the claims speak of, stated without the operators of Summarize.    *)

\* the results of the input that share one URL, in input order
GroupOf(url) == SelectSeq(pings, LAMBDA p : p.URL = url)

\* a is before b in lexicographic byte order
BytesLess(a, b) ==
    \E k \in 1..(Len(b)) :
        /\ k <= Len(a) + 1
        /\ \A i \in 1..(k - 1) : a[i] = b[i]
        /\ (k = Len(a) + 1 \/ a[k] < b[k])

TotalsOf(g) == {g[i].TotalResponseTime : i \in DOMAIN g}

MaxTotal(g) == CHOOSE t \in TotalsOf(g) : \A u \in TotalsOf(g) : u <= t

\* the element at 0-based index k of the group's TotalResponseTime values
\* sorted ascending
KthTotal(g, k) ==
    CHOOSE t \in TotalsOf(g) :
        /\ Cardinality({i \in DOMAIN g : g[i].TotalResponseTime < t}) <= k
        /\ k < Cardinality({i \in DOMAIN g : g[i].TotalResponseTime <= t})

RECURSIVE SumTotals(_)
SumTotals(g) ==
    IF g = <<>> THEN 0 ELSE Head(g).TotalResponseTime + SumTotals(Tail(g))

FailedIn(g) == Cardinality({i \in DOMAIN g : g[i].Status = "Failed"})

\* C1: Summarize returns exactly one entry per distinct URL of the input (none
\* missing, none invented, none twice), strictly ascending by Endpoint in
\* lexicographic byte order, whatever the iteration order of the map.
C1_OneEntryPerUrlSorted ==
    sumPc = "done" =>
        /\ \A i \in DOMAIN pings : \E j \in DOMAIN stats : stats[j].Endpoint = pings[i].URL
        /\ \A j \in DOMAIN stats : \E i \in DOMAIN pings : pings[i].URL = stats[j].Endpoint
        /\ \A j, k \in DOMAIN stats :
              j < k => BytesLess(stats[j].Endpoint, stats[k].Endpoint)

\* C1 witness: three endpoints, given in descending order and one of them twice
C1_Witness ==
    /\ sumPc = "done"
    /\ Len(pings) = 4
    /\ Len(stats) = 3
    /\ pings[1].URL = <<98>>
    /\ pings[2].URL = <<97, 98>>
    /\ pings[3].URL = <<97>>

\* C2: when a response is received, Status is Success if and only if the
\* response's status code is one of the configured AcceptedStatusCodes (never
\* with an empty list), and StatusCode carries the received code either way.
C2_StatusIffAccepted ==
    (pc = "done" /\ resp # 0) =>
        LET accepted == {monitor.AcceptedStatusCodes[i] :
                            i \in DOMAIN monitor.AcceptedStatusCodes}
        IN  /\ result.Status \in {"Success", "Failed"}
            /\ result.Status = "Success" <=> resp \in accepted
            /\ monitor.AcceptedStatusCodes = <<>> => result.Status = "Failed"
            /\ result.StatusCode = resp

\* C2 witness: a 204 answer, accepted as the last code of pingUrl's list
C2_Witness ==
    /\ pc = "done"
    /\ resp = 204
    /\ monitor.AcceptedStatusCodes = <<200, 201, 202, 204>>
    /\ result.Status = "Success"
    /\ result.StatusCode = 204

\* C3: when ExecutePing fails before a response is obtained, whichever phases
\* had completed, the result is Failed with StatusCode 0, a non-empty Message,
\* and every timing field and the certificate validity zero.
C3_FailureResultIsZeroed ==
    (pc = "done" /\ resp = 0) =>
        /\ result.Status = "Failed"
        /\ result.StatusCode = 0
        /\ result.Message # ""
        /\ result.DNSTime = 0
        /\ result.ConnectionTime = 0
        /\ result.TLSTime = 0
        /\ result.TTFB = 0
        /\ result.DownloadTime = 0
        /\ result.TotalResponseTime = 0
        /\ result.CertRemainingValidity = 0

\* C3 witness: the request fails after DNS, connect and TLS phases took time
\* and a certificate was seen
C3_Witness ==
    /\ pc = "done"
    /\ resp = 0
    /\ result.Status = "Failed"
    /\ tr.dnsDuration > 0
    /\ tr.connDuration > 0
    /\ tr.tlsDuration > 0
    /\ tr.certRemainingValidity > 0

\* C4: per group, NumberOfMeasurements is the group size,
\* NumberOfFailedMeasurements the number of Failed results, and Availability
\* is 100 x (measurements - failed) / measurements.
C4_CountsAndAvailability ==
    sumPc = "done" =>
        \A j \in DOMAIN stats :
            LET g == GroupOf(stats[j].Endpoint)
                a == stats[j].Availability
            IN  /\ stats[j].NumberOfMeasurements = Len(g)
                /\ stats[j].NumberOfFailedMeasurements = FailedIn(g)
                /\ a.den > 0
                /\ a.num * Len(g) = 100 * (Len(g) - FailedIn(g)) * a.den

\* C4 witness: a group of 3 Success and 1 Failed has Availability 75
C4_Witness ==
    /\ sumPc = "done"
    /\ \E j \in DOMAIN stats :
          /\ stats[j].NumberOfMeasurements = 4
          /\ stats[j].NumberOfFailedMeasurements = 1
          /\ FailedIn(GroupOf(stats[j].Endpoint)) = 1
          /\ stats[j].Availability.num = 75 * stats[j].Availability.den

\* C5: per group, LongestResponseTime is the maximum TotalResponseTime of the
\* group's results.
C5_LongestIsMaximum ==
    sumPc = "done" =>
        \A j \in DOMAIN stats :
            stats[j].LongestResponseTime = MaxTotal(GroupOf(stats[j].Endpoint))

\* C6: per group, WorstMonitor is the Name of the earliest result whose
\* TotalResponseTime is the maximum of the group (also when all are zero).
C6_WorstMonitorIsFirstMaximum ==
    sumPc = "done" =>
        \A j \in DOMAIN stats :
            LET g == GroupOf(stats[j].Endpoint)
            IN  \E i \in DOMAIN g :
                    /\ g[i].TotalResponseTime = MaxTotal(g)
                    /\ \A k \in 1..(i - 1) : g[k].TotalResponseTime < MaxTotal(g)
                    /\ stats[j].WorstMonitor = g[i].Name

\* C7: per group of n results, Percentile99ResponseTime is the element at index
\* max(0, ceil(n x 0.99) - 1) of the sorted TotalResponseTime values.
C7_Percentile99IsCeilRank ==
    sumPc = "done" =>
        \A j \in DOMAIN stats :
            LET g == GroupOf(stats[j].Endpoint)
                rank == (Len(g) * 99 + 99) \div 100
                index == IF rank - 1 < 0 THEN 0 ELSE rank - 1
            IN  stats[j].Percentile99ResponseTime = KthTotal(g, index)

\* C8: per group, ShortestCertValidityTime is the minimum CertRemainingValidity
\* of the group's results, as the duration the inputs carry.
C8_ShortestCertIsMinimum ==
    sumPc = "done" =>
        \A j \in DOMAIN stats :
            LET g == GroupOf(stats[j].Endpoint)
            IN  /\ \E i \in DOMAIN g :
                      stats[j].ShortestCertValidityTime = g[i].CertRemainingValidity
                /\ \A i \in DOMAIN g :
                      stats[j].ShortestCertValidityTime <= g[i].CertRemainingValidity

\* C9: per group of n results, MedianResponseTime is the element at index
\* floor(n/2) of the sorted TotalResponseTime values.
C9_MedianIsUpperMiddle ==
    sumPc = "done" =>
        \A j \in DOMAIN stats :
            LET g == GroupOf(stats[j].Endpoint)
            IN  stats[j].MedianResponseTime = KthTotal(g, Len(g) \div 2)

\* C9 witness: response times 4, 1, 3, 2 ms in this order have median 3 ms
C9_Witness ==
    /\ sumPc = "done"
    /\ Len(pings) = 4
    /\ \A i \in 1..4 :
          pings[i].TotalResponseTime = <<4, 1, 3, 2>>[i] * Millisecond
    /\ Len(stats) = 1
    /\ stats[1].MedianResponseTime = 3 * Millisecond

\* C10 as claimed: per group, AvgResponseTime is the mean of TotalResponseTime
\* over all results of the group.
C10_AvgIsExactMean ==
    sumPc = "done" =>
        \A j \in DOMAIN stats :
            LET g == GroupOf(stats[j].Endpoint)
            IN  stats[j].AvgResponseTime * Len(g) = SumTotals(g)

\* C10 amended: per group, AvgResponseTime is a whole number of milliseconds,
\* the mean of TotalResponseTime over all results of the group (failed ones
\* included in sum and divisor) with its fraction of a millisecond dropped.
C10_AvgIsMeanInWholeMs ==
    sumPc = "done" =>
        \A j \in DOMAIN stats :
            LET g == GroupOf(stats[j].Endpoint)
                avg == stats[j].AvgResponseTime
            IN  /\ avg % Millisecond = 0
                /\ avg * Len(g) <= SumTotals(g)
                /\ SumTotals(g) < (avg + Millisecond) * Len(g)

\* C10 witness: a group with a Failed result of non-zero response time whose
\* mean is not a whole number of milliseconds
C10_Witness ==
    /\ sumPc = "done"
    /\ \E j \in DOMAIN stats :
          LET g == GroupOf(stats[j].Endpoint)
          IN  /\ \E i \in DOMAIN g :
                    g[i].Status = "Failed" /\ g[i].TotalResponseTime > 0
              /\ stats[j].AvgResponseTime * Len(g) < SumTotals(g)

\* the targets runMonitor probes: the lines that are not empty
NonEmptyTargets == {k \in DOMAIN fan.urls : fan.urls[k] # ""}

\* C11: the driver launches exactly one probe per non-empty target, and at the
\* moment of Flush every launched probe has returned from ExecutePing and from
\* the writer's Write (as many Write calls have returned as there are
\* non-empty targets) and has called Done: no probe is still running.
C11_FlushAfterAllProbes ==
    fan.drv = "flushed" =>
        /\ \A k \in DOMAIN fan.urls :
              Cardinality({j \in DOMAIN fan.launched : fan.launched[j] = k})
                  = IF k \in NonEmptyTargets THEN 1 ELSE 0
        /\ \A k \in DOMAIN fan.urls :
              fan.g[k] = IF k \in NonEmptyTargets THEN "done" ELSE "none"
        /\ fan.writes = Cardinality(NonEmptyTargets)

\* C11 witness: two targets around an empty line, both probed and written
\* before the Flush
C11_Witness ==
    /\ fan.drv = "flushed"
    /\ fan.urls = <<"http://a", "", "https://b">>
    /\ fan.writes = 2
    /\ fan.launched = <<1, 3>>

\* C15: at most one probe goroutine executes the writer's Write at any time,
\* and at the Flush the output holds the row of every probe once and whole.
C15_WritesSerialized ==
    /\ Cardinality({k \in DOMAIN fan.g : fan.g[k] = "writing"}) <= 1
    /\ fan.drv = "flushed" =>
          /\ \A k \in NonEmptyTargets :
                Cardinality({j \in DOMAIN fan.out : fan.out[j] = ResultRow(k)}) = 1
          /\ \A j \in DOMAIN fan.out : fan.out[j].kind # "torn"

\* d without its fraction of unit (toward zero)
WholeUnits(d, unit) == IF d >= 0 THEN d - (d % unit) ELSE -((-d) - ((-d) % unit))

\* C12: a Ping written as a record with the formatter and parsed back with
\* parsePing is the Ping with its time fields cut to whole milliseconds, its
\* certificate validity and its timestamp cut to whole seconds, every other
\* field unchanged; formatting the parsed Ping again gives the same record.
C12_RoundTrip ==
    rt.pc \in {"parsed", "again"} =>
        LET p == rt.ping
            q == rt.parsed.ping
        IN  /\ ~rt.parsed.err
            /\ q.Name = p.Name /\ q.URL = p.URL /\ q.Status = p.Status
            /\ q.StatusCode = p.StatusCode /\ q.Message = p.Message
            /\ q.Timestamp = WholeUnits(p.Timestamp, Second)
            /\ q.DNSTime = WholeUnits(p.DNSTime, Millisecond)
            /\ q.ConnectionTime = WholeUnits(p.ConnectionTime, Millisecond)
            /\ q.TLSTime = WholeUnits(p.TLSTime, Millisecond)
            /\ q.TTFB = WholeUnits(p.TTFB, Millisecond)
            /\ q.DownloadTime = WholeUnits(p.DownloadTime, Millisecond)
            /\ q.TotalResponseTime = WholeUnits(p.TotalResponseTime, Millisecond)
            /\ q.CertRemainingValidity = WholeUnits(p.CertRemainingValidity, Second)
            /\ rt.pc = "again" => rt.again = rt.record

\* C12 witness: 1.5 ms comes back as 1 ms, -1.5 s as -1 s, and the second
\* record equals the first
C12_Witness ==
    /\ rt.pc = "again"
    /\ rt.ping.TotalResponseTime = 1500000
    /\ rt.parsed.ping.TotalResponseTime = Millisecond
    /\ rt.ping.CertRemainingValidity = -1500000000
    /\ rt.parsed.ping.CertRemainingValidity = -Second
    /\ rt.ping.Timestamp = Second + 500000000
    /\ rt.again = rt.record

\* C13: the Timestamp of a probe result is the instant the probe started: once
\* the request has been issued (start is taken), the Timestamp of the result
\* is not later than start, on the success path and on the failure of
\* client.Do.
C13_TimestampIsProbeStart ==
    (pc = "done" /\ start # 0) => result.Timestamp <= start

\* the length of a body that arrives in the given pieces
RECURSIVE BodyLength(_)
BodyLength(body) == IF body = <<>> THEN 0 ELSE body[1] + BodyLength(Tail(body))

\* C16: when DownloadTime and TotalResponseTime are taken the body has been
\* read to its end or to the limit of 10 MiB, whichever comes first, and never
\* beyond the limit.
C16_BodyReadToEndOrCap ==
    (pc \in {"total", "return"} \/ (pc = "done" /\ resp # 0)) =>
        net.bytesRead = IF BodyLength(net.body) < BodyCap
                        THEN BodyLength(net.body) ELSE BodyCap

\* C17: the connection time of a returned result is the delta between the
\* start and the end of the dial whose ConnectDone computed it, also when
\* dials overlap; a phase whose callbacks never fired is reported as zero.
C17_PhaseDeltaOfOneOccurrence ==
    (pc = "done" /\ resp # 0) =>
        /\ result.ConnectionTime = net.connDelta
        /\ tr.dnsStart = 0 => result.DNSTime = 0
        /\ tr.connStart = 0 => result.ConnectionTime = 0
        /\ tr.tlsStart = 0 => result.TLSTime = 0

\* a field that reads as a decimal number, with or without a sign
IsNumber(f) ==
    /\ f # <<>>
    /\ \A k \in DOMAIN f : f[k] \in 48..57 \/ (k = 1 /\ f[k] \in {43, 45})
    /\ \E k \in DOMAIN f : f[k] \in 48..57

\* a record of 13 fields whose timestamp, status code and durations parse
WellFormed(rec) ==
    /\ Len(rec) = 13
    /\ IsNumber(rec[4]) /\ rec[4][1] \in 48..57
    /\ \A k \in {5, 7, 8, 9, 10, 11, 12, 13} : IsNumber(rec[k])

\* the well-formed records of an input, in input order
WellFormedOf(input) == SelectSeq(input, WellFormed)

\* C14: no malformed record reaches Summarize. Without the ignore flag an
\* input with a malformed record is never summarized, and a run that ends
\* with an error has called Summarize on nothing and written no row; with
\* the ignore flag the pings passed to Summarize are exactly those of the
\* well-formed records of the input, in input order.
C14_OnlyWellFormedRecordsPass ==
    /\ run.pc = "error" => run.passed = <<>> /\ run.rows = 0
    /\ (run.pc = "summarized" /\ ~run.ignore) => WellFormedOf(run.input) = run.input
    /\ run.pc = "summarized" =>
          /\ Len(run.passed) = Len(WellFormedOf(run.input))
          /\ \A k \in DOMAIN run.passed :
                FormatRecord(run.passed[k]) = WellFormedOf(run.input)[k]

\* C18: the loop of runSummarize ends after finitely many turns: the run
\* leaves the loop at the end of the input, on its way to Summarize, or
\* returns an error.
C18_ReadLoopTerminates == <>(run.pc \in {"eof", "summarized", "error"})

====
